---- MODULE Spec2Model ----
(***************************************************************************)
(* The semantic document store of AgentMCP: the ingestion script           *)
(* (pdf_processor.py, upload_and_process_pdf) that builds a FAISS index    *)
(* and saves it under FAISS_DB_PATH, and the RAG server (rag_server.py:    *)
(* query_documents, clear_database, check_database_exists,                 *)
(* initialize_embeddings) that loads and searches it.                      *)
(*                                                                         *)
(* The store directory holds two artifacts, index.faiss (the vectors) and  *)
(* index.pkl (the fragment texts).  save_local writes them one after the   *)
(* other; load_local reads them one after the other.  Ingestion runs as a  *)
(* process of its own, so its steps interleave with the server's.          *)
(***************************************************************************)
EXTENDS Integers, Sequences, FiniteSets, Bags, TLC

\* ---------------------------------------------------------------- bounds
NumQueriers == 2      \* concurrent callers of query_documents
MaxIngests == 2       \* runs of the ingestion script
MaxTextLen == 1       \* characters of extracted text
MaxReads == 2         \* loads of the store that are counted
MaxCoord == 1         \* largest coordinate of an embedding vector
MaxVecs == 3          \* vectors in an index under test
MaxSplitLen == 5      \* characters of a text that is split
MaxChunkSize == 3     \* largest chunk_size the splitter is tried with

\* ------------------------------------------------------------- constants
default_top_k == 5    \* query_documents(question, top_k=5)
\* The values of top_k a caller may pass: any int, the default when none.
TopKs == {-1, 0, 1, default_top_k}
chunk_size == 1000    \* RecursiveCharacterTextSplitter(chunk_size=1000,
chunk_overlap == 200  \*                                chunk_overlap=200)

\* ------------------------------------------------------------ documents
Space == " "
Newline == "\n"
Whitespace == {Space, Newline}
Chars == {Space, "x"}
Texts == UNION {[1..n -> Chars] : n \in 0..MaxTextLen}
\* What pdf_path names: no file (there = FALSE), or a PDF with its text.
NoDoc == [there |-> FALSE, text |-> <<>>]
Docs == {[there |-> TRUE, text |-> t] : t \in Texts} \cup {NoDoc}

RECURSIVE LStrip(_)
LStrip(t) == IF t # <<>> /\ Head(t) \in Whitespace THEN LStrip(Tail(t)) ELSE t

RECURSIVE RStrip(_)
RStrip(t) ==
  IF t # <<>> /\ t[Len(t)] \in Whitespace
    THEN RStrip(SubSeq(t, 1, Len(t) - 1))
    ELSE t

\* str.strip(): the text without its leading and trailing whitespace
Strip(t) == RStrip(LStrip(t))

\* split_text on a text shorter than chunk_size: its one fragment is the text
\* without the whitespace around it, and a text of whitespace has none.  The
\* run goes on with the fragments; raw_text is not read again.
Split(d) == [d EXCEPT !.text = Strip(d.text)]

\* The extracted text is empty or whitespace-only.
Blank(d) == d.there /\ Strip(d.text) = <<>>

\* ------------------------------------------------------------ artifacts
\* A file of the store directory: save = 0 when the file is absent, else the
\* ingestion run that wrote it; full = FALSE while it is only partly written.
NoFile == [save |-> 0, full |-> FALSE]
Partial(s) == [save |-> s, full |-> FALSE]
Complete(s) == [save |-> s, full |-> TRUE]

\* --------------------------------------------------------------- results
\* What a call of query_documents returned: the kind of answer, and for hits
\* the save whose vectors ranked them (idx) and the save whose texts they are.
NoResult == [kind |-> "none", idx |-> 0, docs |-> 0]
Result(k) == [kind |-> k, idx |-> 0, docs |-> 0]
Found(i, d) == [kind |-> "ok", idx |-> i, docs |-> d]

\* A caller of query_documents: where its call is, the top_k it passed, the
\* index.faiss and the index.pkl the call has read, whether the call has
\* called the embedding provider, lastOk when the call began, and what its
\* last call returned.
Idle(r, e) ==
  [pc |-> "idle", k |-> default_top_k, idx |-> 0, docs |-> 0, emb |-> e,
   base |-> 0, res |-> r]

\* The call of caller c returns r.
Return(c, r, e) == [Idle(r, e) EXCEPT !.k = c.k]

\* What get_database_status reported: the kind of report, and for a store
\* that is there what stat found of index.faiss and index.pkl.
NoSizes == <<"none", "none">>
Report(kind, sizes) == [kind |-> kind, sizes |-> sizes]

VARIABLES
  dir,          \* os.path.exists(FAISS_DB_PATH)
  faiss,        \* FAISS_DB_PATH/index.faiss
  pkl,          \* FAISS_DB_PATH/index.pkl
  apiKey,       \* DASHSCOPE_API_KEY is set
  embeddings,   \* rag_server's global: 0 is None, else the client's identity
  constructed,  \* DashScopeEmbeddings objects the server has constructed
  ipc,          \* where the ingestion script is
  idoc,         \* the document the run in progress was given
  isave,        \* the number of the last run started
  ires,         \* what the last run returned
  iInit,        \* the run in progress has constructed its embedding client
  iEmb,         \* the run in progress has called the embedding provider
  iSnap,        \* the store as everything but the run in progress has left it
  lastOk,       \* the last run that returned success
  ready,        \* a run has succeeded and no clear has run since
  calls,        \* the callers of query_documents, a bag of their states
  cres,         \* what the last clear_database returned
  sinceClear,   \* a clear has run and no ingestion step has run since
  track,        \* calls record in base the last successful run at their start
  spc,          \* where the call of get_database_status is
  sres,         \* what the last get_database_status returned
  reads,        \* loads of the store since the last ingestion step or clear
  probe         \* a library function under test: its inputs and its output

store == <<dir, faiss, pkl>>
server == <<embeddings, constructed>>
ingest == <<ipc, idoc, isave, ires, iInit, iEmb, iSnap>>
ghost == <<lastOk, ready, sinceClear>>
env == <<apiKey, track, probe>>
status == <<spc, sres>>
vars == <<store, env, server, ingest, ghost, calls, cres, status, reads>>

EmptyStore == <<FALSE, NoFile, NoFile>>

\* check_database_exists, on a given state of the directory
ExistsIn(d, f) == d /\ f # NoFile

check_database_exists == ExistsIn(dir, faiss)

\* FAISS.load_local succeeds on it: both artifacts whole, and of one save
LoadableIn(f, p) == f.full /\ p.full /\ f.save = p.save

Loadable == LoadableIn(faiss, pkl)

NoProbe == [fn |-> "none"]

\* The state after both programs are loaded, with n callers of the server.
Begin(n) ==
  /\ dir = FALSE /\ faiss = NoFile /\ pkl = NoFile
  /\ apiKey \in BOOLEAN
  /\ embeddings = 0 /\ constructed = 0
  /\ ipc = "idle" /\ idoc = NoDoc /\ isave = 0 /\ ires = "none"
  /\ iInit = FALSE /\ iEmb = FALSE
  /\ iSnap = EmptyStore
  /\ lastOk = 0 /\ ready = FALSE
  /\ calls = [c \in {Idle(NoResult, FALSE)} |-> n]
  /\ cres = "none"
  /\ sinceClear = FALSE
  /\ spc = "idle" /\ sres = Report("none", NoSizes)
  /\ reads = 0

Start == Begin(NumQueriers) /\ probe = NoProbe

Init == Start /\ track = FALSE

\* The same program, observed with each call's starting point on record.
InitTrack == Start /\ track = TRUE

\* The credential is configured (.env is filled in).
ProvideKey ==
  /\ ~apiKey
  /\ apiKey' = TRUE
  /\ UNCHANGED <<store, server, ingest, ghost, calls, cres, track, probe>>
  /\ UNCHANGED <<status, reads>>

\* ------------------------------------------------- ingestion (pdf_processor)
\* Frame of an ingestion step: the server and its callers are another process.
IngestFrame ==
  /\ sinceClear' = FALSE
  /\ reads' = 0
  /\ UNCHANGED <<env, server, calls, cres, isave, status>>

\* The run goes on to its next step.
IGoto(l) ==
  /\ ipc' = l
  /\ UNCHANGED <<ires, iSnap>>

\* The run returns r: its locals are gone.
IReturn(r) ==
  /\ ipc' = "idle"
  /\ ires' = r
  /\ idoc' = NoDoc
  /\ iSnap' = EmptyStore
  /\ iInit' = FALSE
  /\ iEmb' = FALSE

\* IStart with the client constructed before the file is looked for.
IStartInitFirst(d) ==
  /\ ipc = "idle"
  /\ isave < MaxIngests
  /\ isave' = isave + 1
  /\ sinceClear' = FALSE
  /\ IF d.there
       THEN /\ ipc' = "init" /\ ires' = "none"
            /\ idoc' = d /\ iSnap' = store
            /\ UNCHANGED <<iInit, iEmb>>
       ELSE /\ ipc' = "idle"
            /\ ires' = IF apiKey THEN "nofile" ELSE "nokey"
            /\ idoc' = NoDoc /\ iSnap' = EmptyStore
            /\ iInit' = apiKey /\ iEmb' = FALSE
  /\ reads' = 0
  /\ UNCHANGED <<store, env, server, calls, cres, lastOk, ready, status>>

\* upload_and_process_pdf is called with a path: it returns at once when the
\* file does not exist.
IStart(d) ==
  /\ ipc = "idle"
  /\ isave < MaxIngests
  /\ isave' = isave + 1
  /\ sinceClear' = FALSE
  /\ IF d.there
       THEN /\ ipc' = "init" /\ ires' = "none"
            /\ idoc' = d /\ iSnap' = store
            /\ UNCHANGED <<iInit, iEmb>>
       ELSE IReturn("nofile")
  /\ reads' = 0
  /\ UNCHANGED <<store, env, server, calls, cres, lastOk, ready, status>>

\* initialize_embeddings of the script: a new client each run, no cache.
IInit ==
  /\ ipc = "init"
  /\ IF apiKey
       THEN IGoto("read") /\ iInit' = TRUE /\ UNCHANGED <<idoc, iEmb>>
       ELSE IReturn("nokey")
  /\ IngestFrame
  /\ UNCHANGED <<store, lastOk, ready>>

\* IRead with the text checked as it is, not stripped.
IReadNoStrip ==
  /\ ipc = "read"
  /\ IF idoc.text = <<>>
       THEN IReturn("empty")
       ELSE IGoto("embed") /\ idoc' = Split(idoc) /\ UNCHANGED <<iInit, iEmb>>
  /\ IngestFrame
  /\ UNCHANGED <<store, lastOk, ready>>

\* The text is extracted, checked with strip() and split.
IRead ==
  /\ ipc = "read"
  /\ IF Strip(idoc.text) = <<>>
       THEN IReturn("empty")
       ELSE IGoto("embed") /\ idoc' = Split(idoc) /\ UNCHANGED <<iInit, iEmb>>
  /\ IngestFrame
  /\ UNCHANGED <<store, lastOk, ready>>

\* FAISS.from_texts: the provider embeds the fragments and the index is built;
\* the provider may be unreachable and the build may fail.
IEmbed ==
  /\ ipc = "embed"
  /\ \E out \in {"ok", "embederror", "builderror"} :
       IF out = "ok"
         THEN IGoto("mkdir") /\ iEmb' = TRUE /\ UNCHANGED <<idoc, iInit>>
         ELSE IReturn(out)
  /\ IngestFrame
  /\ UNCHANGED <<store, lastOk, ready>>

\* save_local, step 1: the directory is created if it is not there.
ISaveMkdir ==
  /\ ipc = "mkdir"
  /\ dir' = TRUE
  /\ IGoto("faiss_open")
  /\ IngestFrame
  /\ UNCHANGED <<faiss, pkl, iInit, iEmb, lastOk, ready, idoc>>

\* save_local, step 2: index.faiss is opened for writing, which empties it.
ISaveFaissOpen ==
  /\ ipc = "faiss_open"
  /\ IF dir
       THEN /\ faiss' = Partial(isave)
            /\ IGoto("faiss_write") /\ UNCHANGED <<idoc, iInit, iEmb>>
       ELSE /\ faiss' = faiss
            /\ IReturn("saveerror")
  /\ IngestFrame
  /\ UNCHANGED <<dir, pkl, lastOk, ready>>

\* save_local, step 3: the vectors are written out.  A file removed meanwhile
\* stays removed: the bytes go to the unlinked file.
ISaveFaissWrite ==
  /\ ipc = "faiss_write"
  /\ faiss' = IF faiss = Partial(isave) THEN Complete(isave) ELSE faiss
  /\ IGoto("pkl_open")
  /\ IngestFrame
  /\ UNCHANGED <<dir, pkl, iInit, iEmb, lastOk, ready, idoc>>

\* save_local, step 4: index.pkl is opened for writing, which empties it.
ISavePklOpen ==
  /\ ipc = "pkl_open"
  /\ IF dir
       THEN /\ pkl' = Partial(isave)
            /\ IGoto("pkl_write") /\ UNCHANGED <<idoc, iInit, iEmb>>
       ELSE /\ pkl' = pkl
            /\ IReturn("saveerror")
  /\ IngestFrame
  /\ UNCHANGED <<dir, faiss, lastOk, ready>>

\* save_local, step 5: the texts are pickled, and the script reports success.
ISavePklWrite ==
  /\ ipc = "pkl_write"
  /\ pkl' = IF pkl = Partial(isave) THEN Complete(isave) ELSE pkl
  /\ IReturn("ok")
  /\ lastOk' = isave
  /\ ready' = TRUE
  /\ IngestFrame
  /\ UNCHANGED <<dir, faiss>>

Saving == ipc \in {"mkdir", "faiss_open", "faiss_write", "pkl_open", "pkl_write"}

\* An I/O failure during save_local: the exception is caught and reported, and
\* what has been written stays as it is.
ISaveFail ==
  /\ Saving
  /\ IReturn("saveerror")
  /\ IngestFrame
  /\ UNCHANGED <<store, lastOk, ready>>

\* The script is killed during save_local.
ICrash ==
  /\ Saving
  /\ IReturn("crashed")
  /\ IngestFrame
  /\ UNCHANGED <<store, lastOk, ready>>

Ingest ==
  \/ \E d \in Docs : IStart(d)
  \/ IInit
  \/ IRead
  \/ IEmbed
  \/ ISaveMkdir
  \/ ISaveFaissOpen
  \/ ISaveFaissWrite
  \/ ISavePklOpen
  \/ ISavePklWrite
  \/ ISaveFail
  \/ ICrash

\* ------------------------------------------------------ queries (rag_server)
QueryFrame == UNCHANGED <<store, env, ingest, ghost, cres, status>>

\* The callers with one of them moved from state c to state c2.
Move(c, c2) == (calls (-) SetToBag({c})) (+) SetToBag({c2})

\* The call goes on to its next step.
Goto(c, l) == [c EXCEPT !.pc = l]

\* QCheck with the embedding client initialized before the store is looked for.
QCheckInitFirst(c, k) ==
  /\ c.pc = "idle"
  /\ calls' = Move(c, IF check_database_exists
                        THEN [Idle(NoResult, FALSE) EXCEPT
                                !.pc = "load_faiss", !.k = k,
                                !.base = IF track THEN lastOk ELSE 0]
                        ELSE [Idle(Result("notready"), FALSE) EXCEPT !.k = k])
  /\ IF embeddings = 0 /\ apiKey
       THEN constructed' = constructed + 1 /\ embeddings' = constructed + 1
       ELSE UNCHANGED server
  /\ QueryFrame
  /\ UNCHANGED reads

\* query_documents is called with top_k = k: check_database_exists decides
\* whether to go on.
QCheck(c, k) ==
  /\ c.pc = "idle"
  /\ calls' = Move(c, IF check_database_exists
                        THEN [Idle(NoResult, FALSE) EXCEPT
                                !.pc = "init", !.k = k,
                                !.base = IF track THEN lastOk ELSE 0]
                        ELSE [Idle(Result("notready"), FALSE) EXCEPT !.k = k])
  /\ QueryFrame
  /\ UNCHANGED <<server, reads>>

\* QInitTest that stores a client before it reads the credential: the failed
\* call leaves a client without a key in the global.
QInitTestStoresFirst(c) ==
  /\ c.pc = "init"
  /\ calls' = Move(c, IF embeddings # 0
                        THEN Goto(c, "load_faiss")
                        ELSE IF apiKey
                               THEN Goto(c, "make")
                               ELSE Return(c, Result("nokey"), FALSE))
  /\ IF embeddings = 0 /\ ~apiKey
       THEN embeddings' = constructed + 1 /\ constructed' = constructed + 1
       ELSE UNCHANGED server
  /\ QueryFrame
  /\ UNCHANGED reads

\* initialize_embeddings, the test: the cached client is used when there is
\* one; without one the credential is read.
QInitTest(c) ==
  /\ c.pc = "init"
  /\ calls' = Move(c, IF embeddings # 0
                        THEN Goto(c, "load_faiss")
                        ELSE IF apiKey
                               THEN Goto(c, "make")
                               ELSE Return(c, Result("nokey"), FALSE))
  /\ QueryFrame
  /\ UNCHANGED <<server, reads>>

\* initialize_embeddings, the construction: the client is built and stored in
\* the global.
QInitMake(c) ==
  /\ c.pc = "make"
  /\ constructed' = constructed + 1
  /\ embeddings' = constructed + 1
  /\ calls' = Move(c, Goto(c, "load_faiss"))
  /\ QueryFrame
  /\ UNCHANGED reads

\* QLoadFaiss outside the try: a failed read ends the server.
QLoadFaissUncaught(c) ==
  /\ c.pc = "load_faiss"
  /\ calls' = Move(c, IF faiss.full
                        THEN [c EXCEPT !.pc = "load_pkl", !.idx = faiss.save]
                        ELSE Goto(c, "crashed"))
  /\ QueryFrame
  /\ UNCHANGED <<server, reads>>

\* FAISS.load_local, first read: index.faiss.
QLoadFaiss(c) ==
  /\ c.pc = "load_faiss"
  /\ calls' = Move(c, IF faiss.full
                        THEN [c EXCEPT !.pc = "load_pkl", !.idx = faiss.save]
                        ELSE Return(c, Result("loaderror"), FALSE))
  /\ QueryFrame
  /\ UNCHANGED <<server, reads>>

\* FAISS.load_local, second read: index.pkl.  With it the store has been
\* loaded once more.
QLoadPkl(c) ==
  /\ c.pc = "load_pkl"
  /\ calls' = Move(c, IF pkl.full
                        THEN [c EXCEPT !.pc = "search", !.docs = pkl.save]
                        ELSE Return(c, Result("loaderror"), FALSE))
  /\ reads' = IF track /\ pkl.full /\ reads < MaxReads THEN reads + 1 ELSE reads
  /\ QueryFrame
  /\ UNCHANGED server

\* similarity_search: the provider embeds the question (it may be unreachable),
\* the vectors read are searched and the hits are looked up in the texts read.
\* top_k goes to the index search as it is: for top_k <= 0 the search raises
\* (the exception is reported like any other) or, for 0, finds nothing,
\* whichever the installed faiss does.  With vectors of one save and texts of
\* another the lookup either returns texts the vectors do not belong to or
\* fails on a missing identifier.
QSearch(c) ==
  /\ c.pc = "search"
  /\ \E up \in BOOLEAN, hit \in BOOLEAN :
       calls' = Move(c, IF ~up
                          THEN Return(c, Result("embederror"), TRUE)
                          ELSE IF c.k <= 0
                                 THEN IF c.k = 0 /\ hit
                                        THEN Return(c, Result("nohits"), TRUE)
                                        ELSE Return(c, Result("searcherror"), TRUE)
                          ELSE IF c.idx = c.docs \/ hit
                                 THEN Return(c, Found(c.idx, c.docs), TRUE)
                                 ELSE Return(c, Result("lookuperror"), TRUE))
  /\ QueryFrame
  /\ UNCHANGED <<server, reads>>

\* Some caller takes the step.
CallCheck == \E c \in DOMAIN calls : QCheck(c, default_top_k)
CallInitTest == \E c \in DOMAIN calls : QInitTest(c)
CallInitMake == \E c \in DOMAIN calls : QInitMake(c)
CallLoadFaiss == \E c \in DOMAIN calls : QLoadFaiss(c)
CallLoadPkl == \E c \in DOMAIN calls : QLoadPkl(c)
CallSearch == \E c \in DOMAIN calls : QSearch(c)

\* Some caller calls query_documents with a top_k of its choice.
CallCheckAny == \E c \in DOMAIN calls : \E k \in TopKs : QCheck(c, k)

\* -------------------------------------------------------- clear (rag_server)
\* Clear that tests check_database_exists and not the directory: a directory
\* without index.faiss is left where it is.
ClearIfStore ==
  /\ IF check_database_exists
       THEN /\ dir' = FALSE /\ faiss' = NoFile /\ pkl' = NoFile
            /\ cres' = "cleared"
       ELSE /\ UNCHANGED store
            /\ cres' = "absent"
  /\ ready' = FALSE
  /\ sinceClear' = TRUE
  /\ iSnap' = EmptyStore
  /\ reads' = 0
  /\ UNCHANGED <<env, server, calls, lastOk, status>>
  /\ UNCHANGED <<ipc, idoc, isave, ires, iInit, iEmb>>

\* Clear that also forgets the client.
ClearResetsClient ==
  /\ IF dir
       THEN /\ dir' = FALSE /\ faiss' = NoFile /\ pkl' = NoFile
            /\ cres' = "cleared"
       ELSE /\ UNCHANGED store
            /\ cres' = "absent"
  /\ embeddings' = 0
  /\ ready' = FALSE
  /\ sinceClear' = TRUE
  /\ iSnap' = EmptyStore
  /\ reads' = 0
  /\ UNCHANGED <<env, constructed, calls, lastOk, status>>
  /\ UNCHANGED <<ipc, idoc, isave, ires, iInit, iEmb>>

\* Clear without the test that the directory is there: rmtree of a missing
\* directory raises, and the error is reported.
ClearNoTest ==
  /\ IF dir
       THEN /\ dir' = FALSE /\ faiss' = NoFile /\ pkl' = NoFile
            /\ cres' = "cleared"
       ELSE /\ UNCHANGED store
            /\ cres' = "error"
  /\ ready' = FALSE
  /\ sinceClear' = TRUE
  /\ iSnap' = EmptyStore
  /\ reads' = 0
  /\ UNCHANGED <<env, server, calls, lastOk, status>>
  /\ UNCHANGED <<ipc, idoc, isave, ires, iInit, iEmb>>

\* clear_database: the directory is removed with all it holds, when it is there.
Clear ==
  /\ IF dir
       THEN /\ dir' = FALSE /\ faiss' = NoFile /\ pkl' = NoFile
            /\ cres' = "cleared"
       ELSE /\ UNCHANGED store
            /\ cres' = "absent"
  /\ ready' = FALSE
  /\ sinceClear' = TRUE
  /\ iSnap' = EmptyStore
  /\ reads' = 0
  /\ UNCHANGED <<env, server, calls, lastOk, status>>
  /\ UNCHANGED <<ipc, idoc, isave, ires, iInit, iEmb>>

\* ------------------------------------------------------- status (rag_server)
\* What stat finds of a file: nothing, a file still being written, a whole one.
Size(f) == IF f = NoFile THEN "zero" ELSE IF f.full THEN "whole" ELSE "part"

StatusFrame ==
  UNCHANGED <<store, env, server, ingest, ghost, calls, cres, reads>>

\* StatusCheck with the embedding client initialized as the query tools do,
\* once the store is found.
StatusCheckInit ==
  /\ spc = "idle"
  /\ IF check_database_exists
       THEN /\ spc' = "stat" /\ sres' = Report("none", NoSizes)
            /\ IF embeddings = 0 /\ apiKey
                 THEN constructed' = constructed + 1 /\ embeddings' = constructed + 1
                 ELSE UNCHANGED server
       ELSE /\ spc' = "idle" /\ sres' = Report("absent", NoSizes)
            /\ UNCHANGED server
  /\ UNCHANGED <<store, env, ingest, ghost, calls, cres, reads>>

\* get_database_status is called: without a store it reports that there is
\* none.
StatusCheck ==
  /\ spc = "idle"
  /\ IF check_database_exists
       THEN spc' = "stat" /\ sres' = Report("none", NoSizes)
       ELSE spc' = "idle" /\ sres' = Report("absent", NoSizes)
  /\ StatusFrame

\* get_database_status, the sizes: each file is measured if it is there, and
\* the store is reported ready.
StatusStat ==
  /\ spc = "stat"
  /\ spc' = "idle"
  /\ sres' = Report("ready", <<Size(faiss), Size(pkl)>>)
  /\ StatusFrame

Next ==
  \/ ProvideKey
  \/ Ingest
  \/ CallCheck
  \/ CallInitTest
  \/ CallInitMake
  \/ CallLoadFaiss
  \/ CallLoadPkl
  \/ CallSearch
  \/ Clear

Spec == Init /\ [][Next]_vars

SpecTrack == InitTrack /\ [][Next]_vars

\* The program without I/O failures, crashes and clears: what is left is the
\* interleaving of the script's steps with the server's.
NextRace ==
  \/ ProvideKey
  \/ \E d \in Docs : IStart(d)
  \/ IInit
  \/ IRead
  \/ IEmbed
  \/ ISaveMkdir
  \/ ISaveFaissOpen
  \/ ISaveFaissWrite
  \/ ISavePklOpen
  \/ ISavePklWrite
  \/ CallCheck
  \/ CallInitTest
  \/ CallInitMake
  \/ CallLoadFaiss
  \/ CallLoadPkl
  \/ CallSearch

SpecRace == InitTrack /\ [][NextRace]_vars

\* One caller, who passes any top_k.
InitArgs == Begin(1) /\ track = FALSE /\ probe = NoProbe

NextArgs ==
  \/ ProvideKey
  \/ Ingest
  \/ CallCheckAny
  \/ CallInitTest
  \/ CallInitMake
  \/ CallLoadFaiss
  \/ CallLoadPkl
  \/ CallSearch
  \/ Clear

SpecArgs == InitArgs /\ [][NextArgs]_vars

\* The server started where an earlier run of the script has left a store, and
\* with no credential in its environment yet.
InitKey ==
  /\ dir = TRUE /\ faiss = Complete(1) /\ pkl = Complete(1)
  /\ apiKey = FALSE
  /\ embeddings = 0 /\ constructed = 0
  /\ ipc = "idle" /\ idoc = NoDoc /\ isave = 1 /\ ires = "ok"
  /\ iInit = FALSE /\ iEmb = FALSE
  /\ iSnap = <<TRUE, Complete(1), Complete(1)>>
  /\ lastOk = 1 /\ ready = TRUE
  /\ calls = [c \in {Idle(NoResult, FALSE)} |-> NumQueriers]
  /\ cres = "none"
  /\ sinceClear = FALSE
  /\ spc = "idle" /\ sres = Report("none", NoSizes)
  /\ reads = 0
  /\ track = FALSE /\ probe = NoProbe

SpecKey == InitKey /\ [][Next]_vars

\* One caller and the script, each going on with what it has begun: a step
\* that needs nothing but the program itself is taken.  The steps that wait
\* for the embedding provider (IEmbed, QSearch) are taken when the provider
\* answers or the client gives up; the programs set no limit on that wait.
\* Calls begin, and saves fail, as it happens.
InitLive == Begin(1) /\ track = FALSE /\ probe = NoProbe

Progress ==
  /\ WF_vars(IInit) /\ WF_vars(IRead)
  /\ WF_vars(ISaveMkdir) /\ WF_vars(ISaveFaissOpen) /\ WF_vars(ISaveFaissWrite)
  /\ WF_vars(ISavePklOpen) /\ WF_vars(ISavePklWrite)
  /\ WF_vars(CallInitTest) /\ WF_vars(CallInitMake)
  /\ WF_vars(CallLoadFaiss) /\ WF_vars(CallLoadPkl)

SpecLive == InitLive /\ [][Next]_vars /\ Progress

\* One caller, who uses the tools of the server one call at a time, the status
\* tool among them; the ingestion script runs beside the server.
InitSeq == Begin(1) /\ track = TRUE /\ probe = NoProbe

NextSeq ==
  \/ ProvideKey
  \/ Ingest
  \/ CallCheck
  \/ CallInitTest
  \/ CallInitMake
  \/ CallLoadFaiss
  \/ CallLoadPkl
  \/ CallSearch
  \/ Clear
  \/ StatusCheck
  \/ StatusStat

SpecSeq == InitSeq /\ [][NextSeq]_vars

\* ------------------------------------------- similarity_search (the library)
\* vector_store.similarity_search(question, k=top_k) on the index that
\* FAISS.from_texts builds: a flat index searched exhaustively by squared
\* Euclidean distance.  The vectors are scanned in the order they were added,
\* the k best so far are kept, and a vector replaces the worst of them only
\* when it is strictly nearer; the kept are returned nearest first.
Coords == 0..MaxCoord
Vectors == Coords \X Coords
Indexes == UNION {[1..n -> Vectors] : n \in 1..MaxVecs}

Dist(u, v) ==
  (u[1] - v[1]) * (u[1] - v[1]) + (u[2] - v[2]) * (u[2] - v[2])

\* Order of the kept pairs <<distance, position>>: by distance, then position.
Before(p, q) == p[1] < q[1] \/ (p[1] = q[1] /\ p[2] < q[2])

Worst(kept) == CHOOSE p \in kept : \A q \in kept \ {p} : Before(q, p)

\* Keep with a vector as near as the worst replacing it.
KeepOnTie(kept, p, k) ==
  IF Cardinality(kept) < k
    THEN kept \cup {p}
    ELSE IF Worst(kept)[1] >= p[1]
           THEN (kept \ {Worst(kept)}) \cup {p}
           ELSE kept

\* One vector of the scan: it is kept while fewer than k are, and otherwise
\* replaces the worst kept when it is strictly nearer.
Keep(kept, p, k) ==
  IF Cardinality(kept) < k
    THEN kept \cup {p}
    ELSE IF Worst(kept)[1] > p[1]
           THEN (kept \ {Worst(kept)}) \cup {p}
           ELSE kept

RECURSIVE Scan(_, _, _, _)
Scan(vecs, q, k, i) ==
  IF i = 0 THEN {} ELSE Keep(Scan(vecs, q, k, i - 1), <<Dist(vecs[i], q), i>>, k)

RECURSIVE Ordered(_)
Ordered(kept) ==
  IF kept = {} THEN <<>>
  ELSE LET p == CHOOSE x \in kept : \A y \in kept \ {x} : Before(x, y)
       IN <<p[2]>> \o Ordered(kept \ {p})

\* The positions of the fragments returned, in the order of the result; the
\* tools list the fragments in that order.
similarity_search(vecs, q, k) == Ordered(Scan(vecs, q, k, Len(vecs)))

RankInputs ==
  [fn : {"search"}, vecs : Indexes, q : Vectors, k : 1..(MaxVecs + 1),
   done : {FALSE}, out : {<<>>}]

\* The library under test, the programs at rest.
Quiet == Begin(1) /\ track = FALSE

InitRank == Quiet /\ probe \in RankInputs

Search ==
  /\ probe.fn = "search" /\ ~probe.done
  /\ probe' = [probe EXCEPT !.done = TRUE,
                             !.out = similarity_search(probe.vecs, probe.q, probe.k)]
  /\ UNCHANGED <<store, apiKey, track, server, ingest, ghost, calls, cres, status, reads>>

NextRank == Search

SpecRank == InitRank /\ [][NextRank]_vars

\* ---------------------------------------------------- split_text (the library)
\* RecursiveCharacterTextSplitter.split_text: the text is cut at the first of
\* the separators it contains, each separator staying at the head of the piece
\* after it; pieces shorter than chunk_size are merged into fragments of at
\* most chunk_size, a fragment keeping the tail of the one before it as far as
\* it fits into chunk_overlap; a piece that is not shorter is split again
\* with the separators that are left.  A piece is kept with the place `at`
\* where it begins in the text.
separators == <<(<<Newline, Newline>>), (<<Newline>>), (<<Space>>), (<<>>)>>

SplitChars == {Newline, Space, "x", "y"}
SplitTexts == UNION {[1..n -> SplitChars] : n \in 0..MaxSplitLen}

Piece(at, t) == [at |-> at, s |-> t]

OccursAt(t, sep, i) ==
  i + Len(sep) - 1 <= Len(t) /\ SubSeq(t, i, i + Len(sep) - 1) = sep

Contains(t, sep) == \E i \in 1..Len(t) : OccursAt(t, sep, i)

\* The pieces of p from position i on, the piece being read beginning at from.
RECURSIVE Cut(_, _, _, _)
Cut(p, sep, i, from) ==
  LET piece == IF from < i
                 THEN <<Piece(p.at + from - 1, SubSeq(p.s, from, i - 1))>>
                 ELSE <<>>
  IN IF i > Len(p.s) THEN piece
     ELSE IF sep = <<>> THEN piece \o Cut(p, sep, i + 1, i)
     ELSE IF OccursAt(p.s, sep, i) THEN piece \o Cut(p, sep, i + Len(sep), i)
     ELSE Cut(p, sep, i + 1, from)

\* _split_text_with_regex, keep_separator=True
SplitOn(p, sep) == Cut(p, sep, 1, 1)

RECURSIVE Total(_)
Total(ps) == IF ps = <<>> THEN 0 ELSE Len(Head(ps).s) + Total(Tail(ps))

RECURSIVE Joined(_)
Joined(ps) == IF ps = <<>> THEN <<>> ELSE Head(ps).s \o Joined(Tail(ps))

\* _join_docs: the pieces joined and stripped; nothing when nothing is left.
JoinDocs(ps) ==
  LET t == Joined(ps)
      lead == Len(t) - Len(LStrip(t))
  IN IF ps = <<>> \/ Strip(t) = <<>>
       THEN <<>>
       ELSE <<Piece(Head(ps).at + lead, Strip(t))>>

\* Shrink that keeps nothing of the fragment before.
RECURSIVE ShrinkAll(_, _, _, _)
ShrinkAll(cur, len, size, overlap) ==
  IF Total(cur) > 0 THEN ShrinkAll(Tail(cur), len, size, overlap) ELSE cur

\* _merge_splits, the while loop: pieces are dropped from the front until what
\* is left fits into chunk_overlap and leaves room for the next piece.
RECURSIVE Shrink(_, _, _, _)
Shrink(cur, len, size, overlap) ==
  IF Total(cur) > overlap \/ (Total(cur) + len > size /\ Total(cur) > 0)
    THEN Shrink(Tail(cur), len, size, overlap)
    ELSE cur

\* _merge_splits (the separator is kept in the pieces, so none is added)
RECURSIVE Merge(_, _, _, _)
Merge(ps, cur, size, overlap) ==
  IF ps = <<>> THEN JoinDocs(cur)
  ELSE LET d == Head(ps)
       IN IF Total(cur) + Len(d.s) > size /\ cur # <<>>
            THEN JoinDocs(cur)
                 \o Merge(Tail(ps), Append(Shrink(cur, Len(d.s), size, overlap), d),
                          size, overlap)
            ELSE Merge(Tail(ps), Append(cur, d), size, overlap)

\* The separator _split_text takes: the first that the text contains, the
\* empty one at the latest.
RECURSIVE Chosen(_, _, _)
Chosen(t, seps, i) ==
  IF i >= Len(seps) \/ seps[i] = <<>> \/ Contains(t, seps[i])
    THEN i
    ELSE Chosen(t, seps, i + 1)

RECURSIVE _split_text(_, _, _, _)
RECURSIVE Walk(_, _, _, _, _)

\* _split_text, the loop over the pieces: good holds the short pieces not yet
\* merged.
Walk(ps, good, rest, size, overlap) ==
  LET flush == IF good = <<>> THEN <<>> ELSE Merge(good, <<>>, size, overlap)
  IN IF ps = <<>> THEN flush
     ELSE LET p == Head(ps)
          IN IF Len(p.s) < size
               THEN Walk(Tail(ps), Append(good, p), rest, size, overlap)
               ELSE flush
                    \o (IF rest = <<>> THEN <<p>>
                        ELSE _split_text(p, rest, size, overlap))
                    \o Walk(Tail(ps), <<>>, rest, size, overlap)

_split_text(p, seps, size, overlap) ==
  LET i == Chosen(p.s, seps, 1)
      rest == IF seps[i] = <<>> THEN <<>> ELSE SubSeq(seps, i + 1, Len(seps))
  IN Walk(SplitOn(p, seps[i]), <<>>, rest, size, overlap)

split_text(t, size, overlap) == _split_text(Piece(1, t), separators, size, overlap)

SplitInputs ==
  {[fn |-> "split", text |-> t, size |-> sz, overlap |-> ov,
    done |-> FALSE, out |-> <<>>] :
     t \in SplitTexts, sz \in 1..MaxChunkSize, ov \in 0..(MaxChunkSize - 1)}

InitSplit == Quiet /\ probe \in {i \in SplitInputs : i.overlap < i.size}

SplitText ==
  /\ probe.fn = "split" /\ ~probe.done
  /\ probe' = [probe EXCEPT !.done = TRUE,
                             !.out = split_text(probe.text, probe.size, probe.overlap)]
  /\ UNCHANGED <<store, apiKey, track, server, ingest, ghost, calls, cres, status, reads>>

NextSplit == SplitText

SpecSplit == InitSplit /\ [][NextSplit]_vars

\* ------------------------------------- save_local, load_local (the library)
\* FAISS.from_texts gives each fragment an identifier of its own, adds its
\* vector to the flat index and keeps the fragment in the docstore under the
\* identifier.  save_local writes the index as its dimension, its size and
\* the coordinates of its vectors one after the other (index.faiss), and the
\* docstore with the identifiers as a pickle, entry by entry (index.pkl);
\* load_local reads both back.
Fragments == {<<"x">>, <<"y">>}

dimension == 2        \* coordinates of a vector of the grid

Uuid(i) == <<"id", i>>

from_texts(texts, vecs) ==
  [vecs |-> vecs,
   ids |-> [i \in 1..Len(texts) |-> Uuid(i)],
   docstore |-> [u \in {Uuid(i) : i \in 1..Len(texts)} |-> texts[u[2]]]]

\* faiss.write_index of a flat index
write_index(vecs) ==
  [d |-> dimension, ntotal |-> Len(vecs),
   codes |-> [j \in 1..(dimension * Len(vecs)) |->
                vecs[((j - 1) \div dimension) + 1][((j - 1) % dimension) + 1]]]

\* read_index that takes the coordinates column by column.
read_index_by_column(f) ==
  [i \in 1..f.ntotal |-> [c \in 1..f.d |-> f.codes[(c - 1) * f.ntotal + i]]]

\* faiss.read_index of a flat index
read_index(f) ==
  [i \in 1..f.ntotal |-> [c \in 1..f.d |-> f.codes[(i - 1) * f.d + c]]]

\* pickle.dump((docstore, index_to_docstore_id)): the entries of the two
\* dictionaries, in the order of the index
dump(index) ==
  [i \in 1..Len(index.ids) |-> <<i, index.ids[i], index.docstore[index.ids[i]]>>]

\* pickle.load: the two dictionaries again
load(entries) ==
  [ids |-> [i \in 1..Len(entries) |-> entries[i][2]],
   docstore |-> [u \in {entries[i][2] : i \in 1..Len(entries)} |->
                   LET i == CHOOSE j \in 1..Len(entries) : entries[j][2] = u
                   IN entries[i][3]]]

save_local(index) == [faiss |-> write_index(index.vecs), pkl |-> dump(index)]

load_local(files) ==
  [vecs |-> read_index(files.faiss),
   ids |-> load(files.pkl).ids,
   docstore |-> load(files.pkl).docstore]

\* The fragments of an index in the order of insertion.
TextsOf(index) == [i \in 1..Len(index.ids) |-> index.docstore[index.ids[i]]]

RoundTripInputs ==
  UNION {[fn : {"roundtrip"}, stage : {"texts"},
          texts : [1..n -> Fragments], vecs : [1..n -> Vectors],
          built : {<<>>}, files : {<<>>}, loaded : {<<>>}] : n \in 1..MaxVecs}

InitRoundTrip == Quiet /\ probe \in RoundTripInputs

ProbeFrame ==
  UNCHANGED <<store, apiKey, track, server, ingest, ghost, calls, cres, status, reads>>

\* upload_and_process_pdf, step 5
BuildIndex ==
  /\ probe.fn = "roundtrip" /\ probe.stage = "texts"
  /\ probe' = [probe EXCEPT !.stage = "built",
                             !.built = from_texts(probe.texts, probe.vecs)]
  /\ ProbeFrame

\* upload_and_process_pdf, step 6
SaveIndex ==
  /\ probe.fn = "roundtrip" /\ probe.stage = "built"
  /\ probe' = [probe EXCEPT !.stage = "saved", !.files = save_local(probe.built)]
  /\ ProbeFrame

\* query_documents, the load
LoadIndex ==
  /\ probe.fn = "roundtrip" /\ probe.stage = "saved"
  /\ probe' = [probe EXCEPT !.stage = "loaded", !.loaded = load_local(probe.files)]
  /\ ProbeFrame

NextRoundTrip == BuildIndex \/ SaveIndex \/ LoadIndex

SpecRoundTrip == InitRoundTrip /\ [][NextRoundTrip]_vars

\* --------------------------------------------- the three ways to ask a query
\* query_documents and search_similar_documents of the server and
\* query_documents of the script, each as the function its code computes of
\* what it is given: the store (absent, index.faiss there but FAISS.load_local
\* failing, or whole), the credential, the client already in the global, the
\* provider answering or not, the installed faiss raising on k = 0 or not, the
\* vectors of the store, the question's vector and top_k.  An answer is the
\* branch taken, the error if any, the fragments selected in their order, and
\* the text returned.
search_top_k == 3
preview_length == 200

AskedKs == TopKs \cup {search_top_k}
AskedIndexes == {v \in Indexes : Len(v) <= 2}
AskedQuestions == {<<0, 0>>, <<MaxCoord, 0>>}
Entries == {"query_documents", "search_similar_documents", "script"}

\* doc.page_content of the fragment at a position of the index
page_content(i) == [j \in 1..i |-> "x"]

\* doc.page_content[:200] followed by "..."
Preview(t) ==
  SubSeq(t, 1, IF Len(t) < preview_length THEN Len(t) ELSE preview_length)
    \o <<"...">>

Answer(branch, why, docs, text) ==
  [branch |-> branch, why |-> why, docs |-> docs, text |-> text]

NotAsked == Answer("none", "none", <<>>, <<>>)

\* FAISS.load_local and vector_store.similarity_search, as every entry point
\* calls them: what is raised, or the positions found.
Raised(why) == [ok |-> FALSE, why |-> why, docs |-> <<>>]
Got(docs) == [ok |-> TRUE, why |-> "none", docs |-> docs]

load_local_of(s) == IF s.store = "whole" THEN Got(<<>>) ELSE Raised("loaderror")

search_of(s, k) ==
  IF ~s.up THEN Raised("embederror")
  ELSE IF k <= 0
         THEN IF k = 0 /\ ~s.raises THEN Got(<<>>) ELSE Raised("searcherror")
         ELSE Got(similarity_search(s.vecs, s.q, k))

\* initialize_embeddings of the server, and the copy of it in the script
server_initialize_embeddings(s) ==
  IF s.client THEN Got(<<>>)
  ELSE IF apiKey THEN Got(<<>>) ELSE Raised("nokey")

script_initialize_embeddings(s) ==
  IF s.client THEN Got(<<>>)
  ELSE IF apiKey THEN Got(<<>>) ELSE Raised("nokey")

\* check_database_exists of the server, and the copy of it in the script
server_check_database_exists(s) == s.store # "absent"
script_check_database_exists(s) == s.store # "absent"

\* search_similar_documents with its own default in place of the top_k given.
search_similar_documents_default_k(s) ==
  IF ~server_check_database_exists(s)
    THEN Answer("notready", "none", <<>>, <<" ", "upload first">>)
  ELSE LET e == server_initialize_embeddings(s)
           l == load_local_of(s)
           r == search_of(s, search_top_k)
       IN IF ~e.ok THEN Answer("error", e.why, <<>>, <<" ", "search failed", e.why>>)
          ELSE IF ~l.ok THEN Answer("error", l.why, <<>>, <<" ", "search failed", l.why>>)
          ELSE IF ~r.ok THEN Answer("error", r.why, <<>>, <<" ", "search failed", r.why>>)
          ELSE IF r.docs = <<>>
                 THEN Answer("noresult", "none", <<>>, <<" ", "nothing found">>)
                 ELSE Answer("success", "none", r.docs,
                             <<" ", "found", Len(r.docs)>> \o
                             [i \in 1..Len(r.docs) |->
                                <<i, Preview(page_content(r.docs[i]))>>])

\* query_documents of the server
query_documents(s) ==
  IF ~server_check_database_exists(s)
    THEN Answer("notready", "none", <<>>, <<" ", "upload first">>)
  ELSE LET e == server_initialize_embeddings(s)
           l == load_local_of(s)
           r == search_of(s, s.k)
       IN IF ~e.ok THEN Answer("error", e.why, <<>>, <<" ", "query failed", e.why>>)
          ELSE IF ~l.ok THEN Answer("error", l.why, <<>>, <<" ", "query failed", l.why>>)
          ELSE IF ~r.ok THEN Answer("error", r.why, <<>>, <<" ", "query failed", r.why>>)
          ELSE IF r.docs = <<>>
                 THEN Answer("noresult", "none", <<>>, <<" ", "nothing found">>)
                 ELSE Answer("success", "none", r.docs,
                             <<" ", "content">> \o
                             [i \in 1..Len(r.docs) |-> page_content(r.docs[i])] \o
                             <<" ", "hint">>)

\* search_similar_documents of the server
search_similar_documents(s) ==
  IF ~server_check_database_exists(s)
    THEN Answer("notready", "none", <<>>, <<" ", "upload first">>)
  ELSE LET e == server_initialize_embeddings(s)
           l == load_local_of(s)
           r == search_of(s, s.k)
       IN IF ~e.ok THEN Answer("error", e.why, <<>>, <<" ", "search failed", e.why>>)
          ELSE IF ~l.ok THEN Answer("error", l.why, <<>>, <<" ", "search failed", l.why>>)
          ELSE IF ~r.ok THEN Answer("error", r.why, <<>>, <<" ", "search failed", r.why>>)
          ELSE IF r.docs = <<>>
                 THEN Answer("noresult", "none", <<>>, <<" ", "nothing found">>)
                 ELSE Answer("success", "none", r.docs,
                             <<" ", "found", Len(r.docs)>> \o
                             [i \in 1..Len(r.docs) |->
                                <<i, Preview(page_content(r.docs[i]))>>])

\* query_documents of the script
script_query_documents(s) ==
  IF ~script_check_database_exists(s)
    THEN Answer("notready", "none", <<>>, <<"upload first">>)
  ELSE LET e == script_initialize_embeddings(s)
           l == load_local_of(s)
           r == search_of(s, s.k)
       IN IF ~e.ok THEN Answer("error", e.why, <<>>, <<"query failed", e.why>>)
          ELSE IF ~l.ok THEN Answer("error", l.why, <<>>, <<"query failed", l.why>>)
          ELSE IF ~r.ok THEN Answer("error", r.why, <<>>, <<"query failed", r.why>>)
          ELSE IF r.docs = <<>>
                 THEN Answer("noresult", "none", <<>>, <<"nothing found">>)
                 ELSE Answer("success", "none", r.docs,
                             <<"content">> \o
                             [i \in 1..Len(r.docs) |-> page_content(r.docs[i])] \o
                             <<"hint">>)

AgreeInputs ==
  [fn : {"ask"}, store : {"absent", "partial", "whole"}, client : BOOLEAN,
   up : BOOLEAN, raises : BOOLEAN, vecs : AskedIndexes, q : AskedQuestions,
   k : AskedKs, outs : {[e \in Entries |-> NotAsked]}]

InitAgree == Quiet /\ probe \in AgreeInputs

Ask(entry, answer) ==
  /\ probe.fn = "ask" /\ probe.outs[entry] = NotAsked
  /\ probe' = [probe EXCEPT !.outs[entry] = answer]
  /\ UNCHANGED <<store, apiKey, track, server, ingest, ghost, calls, cres, status, reads>>

AskQuery == Ask("query_documents", query_documents(probe))
AskSearch == Ask("search_similar_documents", search_similar_documents(probe))
AskScript == Ask("script", script_query_documents(probe))

NextAgree == AskQuery \/ AskSearch \/ AskScript

SpecAgree == InitAgree /\ [][NextAgree]_vars

\* ================================================================ claims
\* In this step one caller went from state c to state c2.
Stepped(c, c2) == c \in DOMAIN calls /\ c2 # c /\ calls' = Move(c, c2)

\* In this step the ingestion run in progress returned.
IReturned == ipc # "idle" /\ ipc' = "idle"

\* This step is a call of clear_database (one that changed anything at all).
ClearStep == (~sinceClear /\ sinceClear') \/ cres' # cres

Returned(k) == \E c \in DOMAIN calls : c.pc = "idle" /\ c.res.kind = k

\* C1: when a run of the ingestion fails (missing credential, provider
\* unreachable, build failure, save failure) over a complete store, the store
\* is afterwards exactly what it was before the run.
C1_FailedIngestLeavesStore ==
  [][(/\ IReturned
      /\ ires' \in {"nokey", "embederror", "builderror", "saveerror"}
      /\ iSnap[1] /\ LoadableIn(iSnap[2], iSnap[3]))
     => store' = iSnap]_vars

\* C2: after a save that fails part-way, exists() reports what it reported
\* before the run, and a store that was loadable before is as it was.
C2_FailedSaveKeepsStore ==
  [][(IReturned /\ Saving /\ ires' = "saveerror")
     => /\ check_database_exists' = ExistsIn(iSnap[1], iSnap[2])
        /\ (LoadableIn(iSnap[2], iSnap[3]) => store' = iSnap)]_vars

\* C3: in every reachable state, a save in progress or cut short included,
\* exists() is true only if a complete index of one save is at the location.
C3_ExistsOnlyIfLoadable == check_database_exists => Loadable
\* C4: a query made while no store exists returns the not-ready result as an
\* ordinary value, without constructing or calling the embedding client and
\* without changing the store, the server's globals or anything else.
C4_NotReadyTouchesNothing ==
  [][\A c \in DOMAIN calls : \A c2 \in DOMAIN calls' :
       (Stepped(c, c2) /\ c.pc = "idle" /\ ~check_database_exists)
       => /\ c2 = Idle(Result("notready"), FALSE)
          /\ UNCHANGED <<store, server, env, ingest, ghost, cres>>]_vars

\* A query has returned not-ready with no store and no client constructed.
C4_Witness ==
  /\ ~check_database_exists
  /\ embeddings = 0 /\ constructed = 0
  /\ apiKey
  /\ Returned("notready")

\* C5: a query over an existing store that runs while the script saves a
\* rebuilt index answers from the old index or from the new one: it returns
\* no load or lookup error and no hits ranked by one save's vectors with
\* another save's texts.
C5_QuerySeesOneIndex ==
  [][\A c \in DOMAIN calls : \A c2 \in DOMAIN calls' :
       (Stepped(c, c2) /\ c.base >= 1 /\ c2.pc = "idle")
       => /\ c2.res.kind \in {"ok", "embederror"}
          /\ c2.res.idx = c2.res.docs]_vars

\* C6: when the callers' first calls overlap and all of them succeed, the
\* server has constructed its embedding client exactly once.
C6_ClientConstructedOnce ==
  (\A c \in DOMAIN calls : c.pc = "idle" /\ c.res.kind = "ok") => constructed = 1

\* C7: a query that begins after a run of the ingestion has returned success
\* is answered from the index of that run or of a later one, never from
\* vectors and texts of different saves.
C7_QuerySeesLatestIngest ==
  [][\A c \in DOMAIN calls : \A c2 \in DOMAIN calls' :
       (Stepped(c, c2) /\ c.base >= 1 /\ c2.res.kind = "ok")
       => /\ c2.res.idx = c2.res.docs
          /\ c2.res.idx >= c.base]_vars
\* C8 as stated: a run on a document whose text is empty or whitespace-only
\* returns the empty-document outcome, has made no embed call, and leaves the
\* store as it was.
C8_BlankIsEmptyDocument ==
  [][(IReturned /\ Blank(idoc))
     => ires' = "empty" /\ ~iEmb /\ store' = iSnap]_vars

\* C8 as amended: such a run fails before any embed call and leaves the store
\* as it was; the outcome is the empty-document one when the credential is
\* configured and the missing-credential one when it is not, the client being
\* initialized before the text is read.
C8_BlankFailsBeforeEmbedding ==
  [][(IReturned /\ Blank(idoc))
     => /\ ires' = (IF iInit THEN "empty" ELSE "nokey")
        /\ (iInit <=> apiKey)
        /\ ~iEmb
        /\ store' = iSnap
        /\ check_database_exists' = ExistsIn(iSnap[1], iSnap[2])]_vars

\* A run on a blank document has returned the empty-document outcome over a
\* store that an earlier run saved, and the store is still whole.
C8_Witness == ires = "empty" /\ isave = 2 /\ lastOk = 1 /\ Loadable /\ ready

\* C9: whenever no run is in progress, exists() is true exactly when a run
\* has succeeded with no clear since, and what exists is loadable.
C9_EmptyOrReady ==
  (ipc = "idle" /\ ires # "crashed")
  => /\ check_database_exists <=> ready
     /\ check_database_exists => Loadable

C11_NonPositiveTopKInvalid ==
  [][\A c \in DOMAIN calls : \A c2 \in DOMAIN calls' :
       (Stepped(c, c2) /\ c2.pc = "idle" /\ c2.k <= 0)
       => c2.res.kind = "invalid" /\ ~c2.emb]_vars

\* C12: a call of status constructs no embedding client and calls none, and
\* leaves the store, the cached client and the callers as they are; it reports
\* a store exactly when exists() is true as it looks, and no sizes without one.
C12_StatusTouchesNoProvider ==
  [][(status' # status)
     => /\ UNCHANGED <<store, server, calls, env, ingest, ghost, cres>>
        /\ spc = "idle" =>
             IF check_database_exists
               THEN spc' = "stat"
               ELSE spc' = "idle" /\ sres' = Report("absent", NoSizes)
        /\ spc = "stat" => spc' = "idle" /\ sres'.kind = "ready"]_vars

\* Status has reported a whole store while the server, with the credential
\* at hand, has no embedding client.
C12_Witness ==
  /\ sres = Report("ready", <<"whole", "whole">>)
  /\ apiKey /\ embeddings = 0 /\ constructed = 0

\* The results that report an error: a message that names what went wrong.
ErrorKinds == {"nokey", "loaderror", "embederror", "lookuperror", "searcherror"}

\* C13: no step of a query changes the store or ends the process.  A query
\* that finds index.faiss or index.pkl missing or partly written, the
\* credential missing, or the provider unreachable returns an error result,
\* which is neither the not-ready result nor a successful one.
C13_QueryErrorsAreResults ==
  [][\A c \in DOMAIN calls : \A c2 \in DOMAIN calls' :
       Stepped(c, c2)
       => /\ UNCHANGED store
          /\ c2.pc \in {"idle", "init", "make", "load_faiss", "load_pkl", "search"}
          /\ (c.pc = "init" /\ embeddings = 0 /\ ~apiKey)
               => c2.pc = "idle" /\ c2.res.kind = "nokey"
          /\ (c.pc = "load_faiss" /\ ~faiss.full)
               => c2.pc = "idle" /\ c2.res.kind = "loaderror"
          /\ (c.pc = "load_pkl" /\ ~pkl.full)
               => c2.pc = "idle" /\ c2.res.kind = "loaderror"
          /\ (c.pc = "search" /\ c2.res.kind # "ok")
               => c2.pc = "idle" /\ c2.res.kind \in ErrorKinds
          /\ (c.pc # "idle" /\ c2.pc = "idle")
               => c2.res.kind \in ErrorKinds \cup {"ok"}
          /\ ErrorKinds \cap {"ok", "notready", "none"} = {}]_vars

\* Over a store that is there, one query has returned a load error and
\* another the error of an unreachable provider.
C13_Witness ==
  /\ check_database_exists
  /\ Returned("loaderror") /\ Returned("embederror")

\* The smaller of two numbers.
Min(a, b) == IF a < b THEN a ELSE b

C15_FixedStride ==
  (probe.fn = "split" /\ probe.done)
  => /\ \A i \in 1..Len(probe.out) : Len(probe.out[i].s) <= probe.size
     /\ \A i \in 1..(Len(probe.out) - 1) :
          probe.out[i + 1].at = probe.out[i].at + (probe.size - probe.overlap)

\* C15 as amended: every fragment is a non-empty stretch of the text of at
\* most size characters, and the fragments come in the order of the text; in
\* a text without whitespace each fragment but the last is size long and the
\* next begins exactly size - overlap characters after it.  The ingestion
\* path's size and overlap are in the range the splitter is tried with.
C15_FragmentsOfTheText ==
  (probe.fn = "split" /\ probe.done)
  => LET out == probe.out
         t == probe.text
     IN /\ \A i \in 1..Len(out) :
             /\ 1 <= Len(out[i].s) /\ Len(out[i].s) <= probe.size
             /\ out[i].s = SubSeq(t, out[i].at, out[i].at + Len(out[i].s) - 1)
        /\ \A i \in 1..(Len(out) - 1) : out[i].at <= out[i + 1].at
        /\ (\A j \in 1..Len(t) : t[j] \notin Whitespace)
             => /\ \A i \in 1..(Len(out) - 1) :
                     /\ Len(out[i].s) = probe.size
                     /\ out[i + 1].at = out[i].at + (probe.size - probe.overlap)
                /\ t # <<>> => /\ out # <<>>
                                /\ out[1].at = 1
                                /\ LET l == out[Len(out)]
                                   IN l.at + Len(l.s) - 1 = Len(t)
        /\ 0 <= chunk_overlap /\ chunk_overlap < chunk_size

\* A text of words has been split at its spaces, the second fragment
\* beginning further on than size - overlap after the first.
C15_Witness ==
  /\ probe.fn = "split" /\ probe.done
  /\ probe.text = <<"x", " ", "x", " ", "y">>
  /\ probe.size = 3 /\ probe.overlap = 1
  /\ probe.out = <<Piece(1, <<"x", " ", "x">>), Piece(5, <<"y">>)>>

C17_StoreReadOnce == reads <= 1

\* C18: every query and every run of the ingestion returns to its caller,
\* also when the embedding provider never answers.
C18_CallsReturn ==
  /\ (\E c \in DOMAIN calls : c.pc # "idle") ~> (\A c \in DOMAIN calls : c.pc = "idle")
  /\ (ipc # "idle") ~> (ipc = "idle")

\* C19: with one caller, the client is constructed once, on the first use that
\* needs it, and kept: once it is there no query, status or clear constructs
\* another or resets it.
C19_ClientCreatedOnce ==
  [][/\ embeddings # 0 => UNCHANGED server
     /\ embeddings' # embeddings
        => /\ \E c \in DOMAIN calls : c.pc = "make"
           /\ embeddings' # 0 /\ constructed' = 1]_vars

\* The client made by a query that succeeded is still the one in the global
\* after the store was cleared and the status was asked.
C19_Witness ==
  /\ embeddings = 1 /\ constructed = 1
  /\ Returned("ok")
  /\ cres = "cleared" /\ ~dir
  /\ sres.kind = "ready"

\* C20: a first use without the credential raises and leaves the global
\* empty; the query returns the error; with the credential set afterwards the
\* next query constructs the client and goes on.
C20_FailedInitLeavesNoClient ==
  [][/\ \A c \in DOMAIN calls : \A c2 \in DOMAIN calls' :
          (Stepped(c, c2) /\ c.pc = "init" /\ embeddings = 0)
          => /\ UNCHANGED server
             /\ IF apiKey THEN c2.pc = "make"
                          ELSE c2 = Return(c, Result("nokey"), FALSE)
     /\ \A c \in DOMAIN calls : \A c2 \in DOMAIN calls' :
          (Stepped(c, c2) /\ c.pc = "make")
          => embeddings' # 0 /\ c2.pc = "load_faiss"]_vars

\* One query returned the missing-credential error and, the credential set,
\* another constructed the client and answered.
C20_Witness ==
  /\ Returned("nokey") /\ Returned("ok")
  /\ apiKey
  /\ embeddings # 0 /\ constructed = 1

\* C21: given the same store, question and top_k, query_documents and
\* search_similar_documents of the server and query_documents of the script
\* take the same branch and select the same fragments in the same order.
C21_EntryPointsAgree ==
  probe.fn = "ask" =>
    \A a \in Entries, b \in Entries :
      (probe.outs[a] # NotAsked /\ probe.outs[b] # NotAsked)
      => /\ probe.outs[a].branch = probe.outs[b].branch
         /\ probe.outs[a].why = probe.outs[b].why
         /\ probe.outs[a].docs = probe.outs[b].docs

\* All three were asked for the two nearest of a store whose second vector
\* is the nearer: each answered with fragment 2 before fragment 1, in three
\* different texts.
C21_Witness ==
  /\ probe.fn = "ask"
  /\ probe.vecs = <<(<<1, 0>>), (<<0, 0>>)>> /\ probe.q = <<0, 0>> /\ probe.k = search_top_k
  /\ \A a \in Entries :
       probe.outs[a].branch = "success" /\ probe.outs[a].docs = <<2, 1>>
  /\ \A a \in Entries, b \in Entries : a # b => probe.outs[a].text # probe.outs[b].text

\* C22: a run of the ingestion given a path to no file returns the
\* file-not-found error at once: no client is constructed, the provider is
\* not called, and nothing at the store location is created, changed or
\* removed.
C22_MissingFileTouchesNothing ==
  [][/\ isave' # isave
        => IF idoc'.there
             THEN ipc' = "init" /\ ires' = "none"
             ELSE /\ ipc' = "idle" /\ ires' = "nofile"
                  /\ ~iInit' /\ ~iEmb'
                  /\ UNCHANGED <<store, server>>
     /\ (iInit' \/ iEmb' \/ ipc' # "idle") => idoc'.there
     /\ (ires' = "nofile" /\ ires # "nofile") => isave' # isave]_vars

\* A run given a missing file has returned over the complete store of an
\* earlier run, which is still there.
C22_Witness ==
  /\ ipc = "idle" /\ ires = "nofile"
  /\ lastOk >= 1 /\ Loadable /\ faiss.save = lastOk
  /\ ~iInit /\ ~iEmb

====
